---------------------------- MODULE Spec2Model ----------------------------
(***************************************************************************)
(* The two configuration patchers of mcp-enhanced-iterm:                   *)
(*   setup-auto-approval.py  (the standard variant,   script "std")        *)
(*   setup-yolo-mode.py      (the permissive variant, script "yolo")       *)
(* Each reads ~/.claude.json, patches the parsed dictionary in memory,     *)
(* copies the file to a backup with `cp` through os.system, reopens the    *)
(* file for writing (which truncates it), dumps the dictionary and prints  *)
(* a summary.                                                              *)
(*                                                                         *)
(* A Python dict is a function from its keys; key order is not modelled.   *)
(* A file is a record [kind, ...]: "missing", "garbage" (bytes that are    *)
(* not JSON), "empty" (truncated by open(..., 'w')), or "json" with the    *)
(* layout of the text (fmt) and the document the text denotes (doc).       *)
(***************************************************************************)
EXTENDS Naturals, Sequences, FiniteSets, TLC

VARIABLES
    main,       \* the file ~/.claude.json
    backup,     \* backup[x]: the file ~/.claude.json followed by the suffix x
    pc,         \* pc[s]: the last statement of script s that completed
    status,     \* status[s]: idle, running, exited, raised or interrupted
    config,     \* config[s]: the dictionary `config` of script s
    cpResult,   \* cpResult[s]: what os.system returned (the scripts discard it)
    runs,       \* runs[s]: how many times script s has been started
    pre,        \* pre[s]: the files as the current run of s found them
    sawMain,    \* sawMain[s]: where the other script's write stood at s's cp
    latest,     \* the script started most recently
    lastWriter, \* the script whose dump reached main most recently
    orig        \* the main file of the initial state

vars == <<main, backup, pc, status, config, cpResult, runs, pre, sawMain,
          latest, lastWriter, orig>>

(* How many runs are started in all, of either script. *)
MaxRuns == 2

Scripts == {"std", "yolo"}

Other(s) == IF s = "std" THEN "yolo" ELSE "std"

---------------------------------------------------------------------------
(* The literals of the scripts. *)

safe_tools ==
    <<"bash", "str_replace_editor", "read", "write", "list_directory",
      "create_directory", "move_file", "search_files", "get_file_info">>

yolo_tools ==
    <<"bash", "str_replace_editor", "read", "write", "list_directory",
      "create_directory", "move_file", "search_files", "get_file_info",
      "delete_file", "copy_file", "run_command", "execute_shell">>

instance1_path == "/Users/deankeesey/Workspace/tools/mcp/enhanced-iterm-mcp-instance-1"
instance2_path == "/Users/deankeesey/Workspace/tools/mcp/enhanced-iterm-mcp-instance-2"

(* for path in [instance1_path, instance2_path] *)
InstancePaths == <<instance1_path, instance2_path>>

FixedPaths == {instance1_path, instance2_path}

(* The suffix of the backup path of each script. *)
BackupSuffix(s) == IF s = "std" THEN ".backup" ELSE ".yolo-backup"

ToolList(s) == IF s = "std" THEN safe_tools ELSE yolo_tools

(* {} *)
EmptyDict == [x \in {} |-> x]

(* The record the standard variant inserts for a path it does not find. *)
NewRecord ==
    [allowedTools |-> safe_tools,
     history |-> <<>>,
     dontCrawlDirectory |-> FALSE,
     mcpContextUris |-> <<>>,
     mcpServers |-> EmptyDict,
     enabledMcpjsonServers |-> <<>>,
     disabledMcpjsonServers |-> <<>>,
     enableAllProjectMcpServers |-> FALSE,
     hasTrustDialogAccepted |-> TRUE,
     ignorePatterns |-> <<>>,
     projectOnboardingSeenCount |-> 0,
     hasClaudeMdExternalIncludesApproved |-> TRUE,
     hasClaudeMdExternalIncludesWarningShown |-> TRUE]

---------------------------------------------------------------------------
(* Dictionaries. *)

(* d[k] = v *)
Put(d, k, v) == [x \in DOMAIN d \cup {k} |-> IF x = k THEN v ELSE d[x]]

(* d without the keys of K *)
Without(d, K) == [x \in DOMAIN d \ K |-> d[x]]

---------------------------------------------------------------------------
(* Files. *)

Missing == [kind |-> "missing"]
Garbage == [kind |-> "garbage"]
Empty == [kind |-> "empty"]

(* json.load: the document a JSON text denotes; its layout is not kept. *)
Parse(file) == file.doc

(* json.dump(config, f, indent=2): the text is always laid out with indent 2. *)
Dumps(doc) == [kind |-> "json", fmt |-> "indent2", doc |-> doc]

(* The value of `config` before json.load has assigned it. *)
NoConfig == [unbound |-> TRUE]

---------------------------------------------------------------------------
(* The patch loops. *)

(* A variant of StdUpdate: the record is replaced by the default record. *)
StdUpdateReplaces(rec) == NewRecord

(* A variant of StdUpdate: the tools are appended to the list in place. *)
StdUpdateExtends(rec) ==
    Put(Put(Put(rec, "allowedTools",
                (IF "allowedTools" \in DOMAIN rec
                 THEN rec["allowedTools"] ELSE <<>>) \o safe_tools),
            "hasTrustDialogAccepted", TRUE),
        "hasClaudeMdExternalIncludesApproved", TRUE)

(* A variant of StdUpdate: the permissive flags are switched off. *)
StdUpdateClearsYolo(rec) ==
    Put(Put(Put(Put(Put(rec, "allowedTools", safe_tools),
                    "hasTrustDialogAccepted", TRUE),
                "hasClaudeMdExternalIncludesApproved", TRUE),
            "autoApproveAllTools", FALSE),
        "yoloMode", FALSE)

(* setup-auto-approval.py, the else branch: three fields are assigned. *)
StdUpdate(rec) ==
    Put(Put(Put(rec, "allowedTools", safe_tools),
            "hasTrustDialogAccepted", TRUE),
        "hasClaudeMdExternalIncludesApproved", TRUE)

(* A variant of StdEntry: a path that is not found is skipped. *)
StdEntryUpdateOnly(doc, path) ==
    IF path \in DOMAIN doc["projects"]
    THEN Put(doc, "projects",
             Put(doc["projects"], path,
                 Put(doc["projects"][path], "allowedTools", safe_tools)))
    ELSE doc

(* setup-auto-approval.py, one pass of the loop body. *)
StdEntry(doc, path) ==
    IF path \notin DOMAIN doc["projects"]
    THEN Put(doc, "projects", Put(doc["projects"], path, NewRecord))
    ELSE Put(doc, "projects",
             Put(doc["projects"], path, StdUpdate(doc["projects"][path])))

(* A variant of YoloUpdate: the trust dialog flag is left as it is. *)
YoloUpdateLeavesTrust(rec) ==
    Put(Put(Put(Put(rec, "allowedTools", yolo_tools),
                "hasClaudeMdExternalIncludesApproved", TRUE),
            "autoApproveAllTools", TRUE),
        "yoloMode", TRUE)

(* setup-yolo-mode.py, the body of the if: five fields are assigned. *)
YoloUpdate(rec) ==
    Put(Put(Put(Put(Put(rec, "allowedTools", yolo_tools),
                    "hasTrustDialogAccepted", TRUE),
                "hasClaudeMdExternalIncludesApproved", TRUE),
            "autoApproveAllTools", TRUE),
        "yoloMode", TRUE)

(* A variant of YoloEntry: a path that is not found gets a record. *)
YoloEntryCreates(doc, path) ==
    Put(doc, "projects",
        Put(doc["projects"], path,
            Put(Put(IF path \in DOMAIN doc["projects"]
                    THEN doc["projects"][path] ELSE NewRecord,
                    "allowedTools", yolo_tools),
                "yoloMode", TRUE)))

(* setup-yolo-mode.py, one pass of the loop body. *)
YoloEntry(doc, path) ==
    IF path \in DOMAIN doc["projects"]
    THEN Put(doc, "projects",
             Put(doc["projects"], path, YoloUpdate(doc["projects"][path])))
    ELSE doc

Entry(s, doc, path) ==
    IF s = "std" THEN StdEntry(doc, path) ELSE YoloEntry(doc, path)

(* The whole loop, over the paths in the order of the list. *)
RECURSIVE PatchFrom(_, _, _)
PatchFrom(s, doc, i) ==
    IF i > Len(InstancePaths) THEN doc
    ELSE PatchFrom(s, Entry(s, doc, InstancePaths[i]), i + 1)

Patched(s, doc) == PatchFrom(s, doc, 1)

(* config["projects"] raises KeyError when the document has no such key. *)
HasProjects(doc) == "projects" \in DOMAIN doc

---------------------------------------------------------------------------
(* The file system. *)

(* A variant of Cp: the command names another destination. *)
CpElsewhere(src, dst, ok) == dst

(* cp SRC DST: DST after the command; a failed cp leaves DST as it was. *)
Cp(src, dst, ok) == IF ok THEN src ELSE dst

(* A variant of Truncated: the file is opened without being cut. *)
OpenedUncut(file) == file

(* open(config_path, 'w'): the file is cut to length 0. *)
Truncated(file) == Empty

(* json.dump into the handle, then close: the text lands at offset 0.  When *)
(* another handle has written since this one was opened, the file keeps    *)
(* what lies beyond the new text: the result is the new text, or bytes     *)
(* that are not JSON, depending on the two lengths.                        *)
WriteResults(file, doc) ==
    IF file.kind = "empty" THEN {Dumps(doc)} ELSE {Dumps(doc), Garbage}

---------------------------------------------------------------------------
(* The files a run may find. *)

other_path == "/Users/deankeesey/Workspace/site"

(* Project records as the consuming application may have left them. *)
OldRecord ==
    [allowedTools |-> <<"read", "web_fetch">>,
     history |-> <<"git status">>,
     hasTrustDialogAccepted |-> FALSE,
     hasClaudeMdExternalIncludesApproved |-> FALSE,
     projectOnboardingSeenCount |-> 3]

BareRecord == [history |-> <<>>, hasTrustDialogAccepted |-> TRUE]

OtherRecord ==
    [allowedTools |-> <<"bash">>,
     history |-> <<"make">>,
     hasTrustDialogAccepted |-> FALSE]

RecordsAt(path) ==
    IF path \in FixedPaths THEN {OldRecord, BareRecord} ELSE {OtherRecord}

ProjectMaps ==
    UNION {{m \in [D -> {OldRecord, BareRecord, OtherRecord}] :
               \A path \in D : m[path] \in RecordsAt(path)} :
           D \in SUBSET (FixedPaths \cup {other_path})}

Documents ==
    {[projects |-> m, numStartups |-> 7] : m \in ProjectMaps}
    \cup {[projects |-> EmptyDict], [numStartups |-> 7]}

(* The consuming application writes the file on one line. *)
JsonFiles == {[kind |-> "json", fmt |-> "compact", doc |-> d] : d \in Documents}

MainFiles == JsonFiles \cup {Missing, Garbage}

(* What an earlier run, of any date, may have left as a backup. *)
StaleBackup == [kind |-> "json", fmt |-> "compact", doc |-> [numStartups |-> 1]]

BackupFiles == {Missing, StaleBackup}

NoSnapshot == [main |-> Missing, backup |-> Missing, writer |-> "none"]

Init ==
    /\ main \in MainFiles
    /\ \E b \in BackupFiles :
          backup = [x \in {BackupSuffix(s) : s \in Scripts} |-> b]
    /\ pc = [s \in Scripts |-> "idle"]
    /\ status = [s \in Scripts |-> "idle"]
    /\ config = [s \in Scripts |-> NoConfig]
    /\ cpResult = [s \in Scripts |-> "none"]
    /\ runs = [s \in Scripts |-> 0]
    /\ pre = [s \in Scripts |-> NoSnapshot]
    /\ sawMain = [s \in Scripts |-> "none"]
    /\ latest = "none"
    /\ lastWriter = "none"
    /\ orig = main

---------------------------------------------------------------------------
(* The statements of a script, in order. *)

Running(s) == status[s] = "running"

(* The process is started: nothing has run yet. *)
Start(s) ==
    /\ ~Running(s)
    /\ runs["std"] + runs["yolo"] < MaxRuns
    /\ runs' = [runs EXCEPT ![s] = @ + 1]
    /\ status' = [status EXCEPT ![s] = "running"]
    /\ pc' = [pc EXCEPT ![s] = "start"]
    /\ config' = [config EXCEPT ![s] = NoConfig]
    /\ cpResult' = [cpResult EXCEPT ![s] = "none"]
    /\ sawMain' = [sawMain EXCEPT ![s] = "none"]
    /\ pre' = [pre EXCEPT ![s] =
                  [main |-> main,
                   backup |-> backup[BackupSuffix(s)],
                   writer |-> lastWriter]]
    /\ latest' = s
    /\ UNCHANGED <<main, backup, lastWriter, orig>>

(* An uncaught exception ends the process where it is. *)
Raise(s) ==
    /\ status' = [status EXCEPT ![s] = "raised"]
    /\ UNCHANGED <<pc, config, cpResult, runs, pre, sawMain, latest,
                   lastWriter, orig>>

(* with open(config_path, 'r') as f: config = json.load(f) *)
Load(s) ==
    /\ Running(s) /\ pc[s] = "start"
    /\ IF main.kind = "json"
       THEN /\ config' = [config EXCEPT ![s] = Parse(main)]
            /\ pc' = [pc EXCEPT ![s] = "loaded"]
            /\ UNCHANGED <<main, backup, status, cpResult, runs, pre, sawMain,
                           latest, lastWriter, orig>>
       ELSE Raise(s) /\ UNCHANGED <<main, backup>>

(* for path in [instance1_path, instance2_path]: ... *)
Patch(s) ==
    /\ Running(s) /\ pc[s] = "loaded"
    /\ IF HasProjects(config[s])
       THEN /\ config' = [config EXCEPT ![s] = Patched(s, config[s])]
            /\ pc' = [pc EXCEPT ![s] = "patched"]
            /\ UNCHANGED <<main, backup, status, cpResult, runs, pre, sawMain,
                           latest, lastWriter, orig>>
       ELSE Raise(s) /\ UNCHANGED <<main, backup>>

(* Where the other script's write to main stands. *)
WriteStage(s) ==
    IF status[s] = "idle" THEN "before"
    ELSE IF pc[s] = "opened" THEN "during"
    ELSE IF pc[s] \in {"written", "done"} THEN "after"
    ELSE "before"

(* os.system(f"cp {config_path} {config_path}<suffix>"): the status that      *)
(* os.system returns is dropped, so the script goes on whatever cp did.       *)
Backup(s) ==
    /\ Running(s) /\ pc[s] = "patched"
    /\ \/ /\ main.kind # "missing"
          /\ backup' = [backup EXCEPT ![BackupSuffix(s)] = Cp(main, @, TRUE)]
          /\ cpResult' = [cpResult EXCEPT ![s] = "ok"]
       \/ /\ backup' = [backup EXCEPT ![BackupSuffix(s)] = Cp(main, @, FALSE)]
          /\ cpResult' = [cpResult EXCEPT ![s] = "failed"]
    /\ sawMain' = [sawMain EXCEPT ![s] = WriteStage(Other(s))]
    /\ pc' = [pc EXCEPT ![s] = "backedup"]
    /\ UNCHANGED <<main, status, config, runs, pre, latest, lastWriter, orig>>

(* with open(config_path, 'w') as f: the open itself *)
OpenWrite(s) ==
    /\ Running(s) /\ pc[s] = "backedup"
    /\ \/ /\ main' = Truncated(main)
          /\ pc' = [pc EXCEPT ![s] = "opened"]
          /\ UNCHANGED <<backup, status, config, cpResult, runs, pre, sawMain,
                         latest, lastWriter, orig>>
       \/ Raise(s) /\ UNCHANGED <<main, backup>>

(* json.dump(config, f, indent=2), and the close at the end of the with *)
Dump(s) ==
    /\ Running(s) /\ pc[s] = "opened"
    /\ \/ /\ main' \in WriteResults(main, config[s])
          /\ pc' = [pc EXCEPT ![s] = "written"]
          /\ lastWriter' = s
          /\ UNCHANGED <<backup, status, config, cpResult, runs, pre, sawMain,
                         latest, orig>>
       \/ Raise(s) /\ UNCHANGED <<main, backup>>

(* The prints, and the end of the script. *)
Report(s) ==
    /\ Running(s) /\ pc[s] = "written"
    /\ pc' = [pc EXCEPT ![s] = "done"]
    /\ status' = [status EXCEPT ![s] = "exited"]
    /\ UNCHANGED <<main, backup, config, cpResult, runs, pre, sawMain, latest,
                   lastWriter, orig>>

(* The process is killed between two statements. *)
Interrupt(s) ==
    /\ Running(s)
    /\ status' = [status EXCEPT ![s] = "interrupted"]
    /\ UNCHANGED <<main, backup, pc, config, cpResult, runs, pre, sawMain,
                   latest, lastWriter, orig>>

Step(s) ==
    \/ Start(s)
    \/ Load(s)
    \/ Patch(s)
    \/ Backup(s)
    \/ OpenWrite(s)
    \/ Dump(s)
    \/ Report(s)
    \/ Interrupt(s)

(* The two scripts, started at any time. *)
Next == \E s \in Scripts : Step(s)

Spec == Init /\ [][Next]_vars

(* The scripts run one after the other: none starts while the other runs. *)
SeqStart(s) == ~Running(Other(s)) /\ Start(s)

SeqNext ==
    \E s \in Scripts :
        \/ SeqStart(s)
        \/ Load(s)
        \/ Patch(s)
        \/ Backup(s)
        \/ OpenWrite(s)
        \/ Dump(s)
        \/ Report(s)
        \/ Interrupt(s)

SeqSpec == Init /\ [][SeqNext]_vars

---------------------------------------------------------------------------
(* What the properties speak of. *)

Exited(s) == status[s] = "exited"

(* Script s has exited and no run was started since: main is as s left it. *)
Finished(s) == Exited(s) /\ latest = s /\ main.kind = "json"

(* The documents before and after the current run of s. *)
Before(s) == Parse(pre[s].main)
After == Parse(main)

TrustFlags == {"hasTrustDialogAccepted", "hasClaudeMdExternalIncludesApproved"}
YoloFlags == {"autoApproveAllTools", "yoloMode"}

(* Each flag of F is a key of the record and is true. *)
FlagsTrue(rec, F) == \A k \in F : k \in DOMAIN rec /\ rec[k] = TRUE

HasTools(rec, tools) ==
    "allowedTools" \in DOMAIN rec /\ rec["allowedTools"] = tools

(* The record of path exists, lists the tools of script s, and is trusted. *)
Approved(doc, path, s) ==
    /\ path \in DOMAIN doc["projects"]
    /\ HasTools(doc["projects"][path], ToolList(s))
    /\ FlagsTrue(doc["projects"][path], TrustFlags)

---------------------------------------------------------------------------
(* C1: after a run of either script that completes on a document with a   *)
(* `projects` mapping, each of the two fixed paths has a record in main    *)
(* whose allowedTools is the script's list and whose two trust flags are   *)
(* true.                                                                   *)
C1_BothRecordsAfterEitherScript ==
    \A s \in Scripts :
        Finished(s) => \A path \in FixedPaths : Approved(After, path, s)

(* C1, amended: after a run that completes, the standard variant has left *)
(* a record for each of the two fixed paths with its tool list and both    *)
(* trust flags true; the permissive variant has done so for each fixed     *)
(* path that had a record before the run, and has created no record for a  *)
(* fixed path that had none.                                               *)
C1_RecordsAfterRun ==
    /\ Finished("std") => \A path \in FixedPaths : Approved(After, path, "std")
    /\ Finished("yolo") =>
           \A path \in FixedPaths :
               IF path \in DOMAIN Before("yolo")["projects"]
               THEN Approved(After, path, "yolo")
               ELSE path \notin DOMAIN After["projects"]

C1_Witness ==
    /\ Finished("yolo")
    /\ Before("yolo")["projects"] = [path \in FixedPaths |-> OldRecord]
    /\ \A path \in FixedPaths : Approved(After, path, "yolo")

(* C2: after a run that exits, the backup of the script exists and holds   *)
(* what main held when the run started, whatever the files held before.    *)
C2_BackupIsPreRunMain ==
    \A s \in Scripts :
        Exited(s) =>
            /\ backup[BackupSuffix(s)].kind # "missing"
            /\ backup[BackupSuffix(s)] = pre[s].main

(* C3: a failure ends the run where it happens; when cp fails no later     *)
(* statement runs: main is not opened for writing and the run does not     *)
(* exit as a success.                                                      *)
C3_FailedCopyAborts ==
    \A s \in Scripts :
        cpResult[s] = "failed" =>
            /\ pc[s] = "backedup"
            /\ ~Exited(s)
            /\ (latest = s => main = pre[s].main)

(* C4: the standard variant, on a document with neither fixed path, leaves *)
(* `projects` with its former keys and the two fixed paths, the two new    *)
(* records listing the 9 standard tools with both trust flags true; on     *)
(* {"projects": {}} the result has exactly 2 keys.                         *)
C4_StdInsertsBoth ==
    (Finished("std") /\ FixedPaths \cap DOMAIN Before("std")["projects"] = {}) =>
        /\ DOMAIN After["projects"] =
               DOMAIN Before("std")["projects"] \cup FixedPaths
        /\ \A path \in FixedPaths :
               /\ Approved(After, path, "std")
               /\ Len(After["projects"][path]["allowedTools"]) = 9
        /\ (Before("std")["projects"] = EmptyDict =>
               Cardinality(DOMAIN After["projects"]) = 2)

C4_Witness ==
    /\ Finished("std")
    /\ Before("std") = [projects |-> EmptyDict]
    /\ DOMAIN After["projects"] = FixedPaths
    /\ After["projects"][instance2_path]["allowedTools"] = safe_tools

(* C5: the standard variant, on a document that has a fixed path, changes  *)
(* of that record only allowedTools and the two trust flags; the other     *)
(* fields of the record, the records of all other paths and the other     *)
(* top-level keys are in the written file what they were before.           *)
C5_StdUpdateFrame ==
    Finished("std") =>
        /\ \A path \in FixedPaths \cap DOMAIN Before("std")["projects"] :
               Without(After["projects"][path], {"allowedTools"} \cup TrustFlags)
                   = Without(Before("std")["projects"][path],
                             {"allowedTools"} \cup TrustFlags)
        /\ \A path \in DOMAIN Before("std")["projects"] \ FixedPaths :
               /\ path \in DOMAIN After["projects"]
               /\ After["projects"][path] = Before("std")["projects"][path]
        /\ Without(After, {"projects"}) = Without(Before("std"), {"projects"})

C5_Witness ==
    /\ Finished("std")
    /\ Before("std")["projects"] =
           [path \in {instance1_path, other_path} |->
               IF path = instance1_path THEN OldRecord ELSE OtherRecord]
    /\ After["projects"][instance1_path]["history"] = <<"git status">>
    /\ After["projects"][instance1_path]["allowedTools"] = safe_tools
    /\ After["projects"][other_path] = OtherRecord
    /\ After["numStartups"] = 7

(* C6: the permissive variant, on a document with exactly one of the two   *)
(* fixed paths, creates no record for the missing path, and gives the      *)
(* present one the 13 permissive tools, autoApproveAllTools and yoloMode   *)
(* true, and both trust flags true.                                        *)
C6_YoloUpdatesOnlyPresent ==
    (/\ Finished("yolo")
     /\ Cardinality(FixedPaths \cap DOMAIN Before("yolo")["projects"]) = 1) =>
        \A path \in FixedPaths :
            IF path \in DOMAIN Before("yolo")["projects"]
            THEN /\ Approved(After, path, "yolo")
                 /\ Len(After["projects"][path]["allowedTools"]) = 13
                 /\ FlagsTrue(After["projects"][path], YoloFlags)
            ELSE path \notin DOMAIN After["projects"]

C6_Witness ==
    /\ Finished("yolo")
    /\ FixedPaths \cap DOMAIN Before("yolo")["projects"] = {instance2_path}
    /\ instance1_path \notin DOMAIN After["projects"]
    /\ After["projects"][instance2_path]["yoloMode"] = TRUE
    /\ After["projects"][instance2_path]["allowedTools"] = yolo_tools

(* C7: the standard variant run on the file that a run of the standard     *)
(* variant wrote leaves the file as it found it: twice is as once.         *)
C7_StdIdempotent ==
    (Finished("std") /\ pre["std"].writer = "std") => main = pre["std"].main

C7_Witness ==
    /\ Finished("std")
    /\ runs["std"] = 2
    /\ pre["std"].writer = "std"
    /\ main = pre["std"].main
    /\ other_path \in DOMAIN After["projects"]
    /\ After["projects"][instance1_path]["history"] = <<"git status">>

---------------------------------------------------------------------------
(* Each script has been started once, and both have exited. *)
BothRanOnce ==
    \A s \in Scripts : runs[s] = 1 /\ Exited(s)

(* C8 as the specification states it: when both scripts run against the    *)
(* same file, in every interleaving the run that writes last determines    *)
(* main, and the backup that run took (its cp having worked) is a copy of  *)
(* the first run's output.                                                 *)
C8_SecondBackupIsFirstOutput ==
    (BothRanOnce /\ cpResult[lastWriter] = "ok") =>
        /\ main = Dumps(config[lastWriter])
        /\ backup[BackupSuffix(lastWriter)] = Dumps(config[Other(lastWriter)])

(* C8, amended: when both scripts run once and both exit, a main file that *)
(* is JSON holds the output of the run whose dump came last, and the       *)
(* backup that run took (its cp having worked) holds what main held when   *)
(* its cp ran: the original file when the other run had not yet opened     *)
(* main for writing, an empty file when the other run was between its open *)
(* and its dump, and the other run's output only when that run's write was *)
(* over.                                                                   *)
C8_SecondBackupFollowsCopyTime ==
    BothRanOnce =>
        /\ main \in {Dumps(config[lastWriter]), Garbage}
        /\ cpResult[lastWriter] = "ok" =>
               backup[BackupSuffix(lastWriter)] =
                   CASE sawMain[lastWriter] = "before" -> orig
                     [] sawMain[lastWriter] = "during" -> Empty
                     [] sawMain[lastWriter] = "after" ->
                            Dumps(config[Other(lastWriter)])

(* Both runs read the original file; the later writer's backup is the      *)
(* original file, not the first run's output.                              *)
C8_Witness ==
    /\ BothRanOnce
    /\ lastWriter = "yolo"
    /\ cpResult["yolo"] = "ok"
    /\ sawMain["yolo"] = "before"
    /\ pre["std"].main = orig /\ pre["yolo"].main = orig
    /\ backup[".yolo-backup"] = orig
    /\ backup[".yolo-backup"] # Dumps(config["std"])
    /\ main = Dumps(config["yolo"])
    /\ instance1_path \in DOMAIN config["yolo"]["projects"]

C10_YoloFlagsSurvive ==
    \A s \in Scripts :
        Finished(s) =>
            \A path \in FixedPaths \cap DOMAIN Before(s)["projects"] :
                FlagsTrue(Before(s)["projects"][path], YoloFlags) =>
                    /\ path \in DOMAIN After["projects"]
                    /\ FlagsTrue(After["projects"][path], YoloFlags)
                    /\ HasTools(After["projects"][path], ToolList(s))

C10_Witness ==
    /\ Finished("std")
    /\ pre["std"].writer = "yolo"
    /\ status["yolo"] = "exited"
    /\ instance1_path \in DOMAIN Before("std")["projects"]
    /\ FlagsTrue(Before("std")["projects"][instance1_path], YoloFlags)
    /\ FlagsTrue(After["projects"][instance1_path], YoloFlags)
    /\ After["projects"][instance1_path]["allowedTools"] = safe_tools

===========================================================================
